---- MODULE Spec2Model ----
(***************************************************************************)
(* Model of src/generate_pdf.py: create_pdf_report(data, output_path).     *)
(*                                                                         *)
(* The composer is modelled as the sequence of stages the function runs    *)
(* through (header, verdict box, key results, DTI table, income table,     *)
(* debt table, loan table, next steps, build).  Each stage either appends  *)
(* its blocks to story or raises, which ends the invocation.               *)
(*                                                                         *)
(* JSON values are records [t, n, s]: t is the Python type, n the number   *)
(* (counted in halves, so that x.5 values are exact as they are in binary  *)
(* floating point) and s the string as a sequence of characters.           *)
(* Numbers whose n is even are Python ints, the others floats.             *)
(***************************************************************************)
EXTENDS Integers, Sequences, FiniteSets, TLC

VARIABLES data, run, pc, story, next_steps, err, artifacts

vars == <<data, run, pc, story, next_steps, err, artifacts>>

----------------------------------------------------------------------------
(* Bounds *)

MaxClock == 1
MaxRuns == 2

----------------------------------------------------------------------------
(* Program constants *)

HousingMax == 28
TotalMax == 36
DtiBand == 7
CreditThreshold == 700

----------------------------------------------------------------------------
(* JSON / Python values *)

Missing == [t |-> "missing", n |-> 0, s |-> <<>>]
Null == [t |-> "null", n |-> 0, s |-> <<>>]
List == [t |-> "list", n |-> 0, s |-> <<>>]
Num(h) == [t |-> "num", n |-> h, s |-> <<>>]
Whole(i) == Num(i + i)
Str(cs) == [t |-> "str", n |-> 0, s |-> cs]

\* dict.get(key, default): the default is used only when the key is absent
Get(v, default) == IF v.t = "missing" THEN default ELSE v

\* Python truth value (List stands for a non-empty JSON array)
Truthy(v) ==
  CASE v.t = "num" -> v.n # 0
    [] v.t = "str" -> v.s # <<>>
    [] v.t = "list" -> TRUE
    [] OTHER -> FALSE

\* the expression (v or 0)
Or0(v) == IF Truthy(v) THEN v ELSE Whole(0)

\* int(x) of a float: truncation toward zero (argument in halves)
Trunc(h) == IF h >= 0 THEN h \div 2 ELSE -((-h) \div 2)

DigitChars == <<"0", "1", "2", "3", "4", "5", "6", "7", "8", "9">>
DigitSet == {DigitChars[i] : i \in 1..10}
DigitVal(c) == (CHOOSE i \in 1..10 : DigitChars[i] = c) - 1

RECURSIVE Digits(_)
Digits(i) ==
  IF i < 10 THEN <<DigitChars[i + 1]>>
  ELSE Digits(i \div 10) \o <<DigitChars[(i % 10) + 1]>>

RECURSIVE DigitsValue(_)
DigitsValue(cs) ==
  IF cs = <<>> THEN 0
  ELSE 10 * DigitsValue(SubSeq(cs, 1, Len(cs) - 1)) + DigitVal(cs[Len(cs)])

AllDigits(cs) == \A i \in 1..Len(cs) : cs[i] \in DigitSet

\* the "," option of the format mini-language on a digit string
RECURSIVE Commas(_)
Commas(ds) ==
  IF Len(ds) <= 3 THEN ds
  ELSE Commas(SubSeq(ds, 1, Len(ds) - 3)) \o <<",">>
         \o SubSeq(ds, Len(ds) - 2, Len(ds))

\* the same without the "," option
FormatInt_plain(i) == IF i < 0 THEN <<"-">> \o Digits(-i) ELSE Digits(i)

\* f"{i:,}"
FormatInt(i) ==
  IF i < 0 THEN <<"-">> \o Commas(Digits(-i)) ELSE Commas(Digits(i))

\* str.replace(c, '') for a one-character c
RECURSIVE Remove(_, _)
Remove(cs, c) ==
  IF cs = <<>> THEN <<>>
  ELSE IF cs[1] = c THEN Remove(Tail(cs), c)
  ELSE <<cs[1]>> \o Remove(Tail(cs), c)

\* str.replace(a, b) for one-character a and b
ReplaceChar(cs, a, b) == [i \in 1..Len(cs) |-> IF cs[i] = a THEN b ELSE cs[i]]

\* needle in hay, for strings
Contains(hay, needle) ==
  \E i \in 1..(Len(hay) - Len(needle) + 1) :
    SubSeq(hay, i, i + Len(needle) - 1) = needle

\* float(s) for a string over the alphabet of the model (digits, ".", "-",
\* "%", "$", ",", letters): an optional sign, digits with at most one ".",
\* at least one digit.  The fractional parts that occur are "", "0" and "5".
ParseFloat(cs) ==
  LET neg == cs # <<>> /\ cs[1] = "-"
      body == IF neg THEN Tail(cs) ELSE cs
      dots == {i \in 1..Len(body) : body[i] = "."}
      dot == IF dots = {} THEN Len(body) + 1 ELSE CHOOSE i \in dots : TRUE
      ip == SubSeq(body, 1, dot - 1)
      fp == SubSeq(body, dot + 1, Len(body))
      wellformed == /\ Cardinality(dots) <= 1
                    /\ AllDigits(ip) /\ AllDigits(fp)
                    /\ Len(ip) + Len(fp) >= 1
      mag == 2 * DigitsValue(ip) + (IF fp # <<>> /\ fp[1] = "5" THEN 1 ELSE 0)
  IN IF wellformed
     THEN [ok |-> TRUE, h |-> IF neg THEN -mag ELSE mag, err |-> "none"]
     ELSE [ok |-> FALSE, h |-> 0, err |-> "ValueError"]

\* float(x)
Float(v) ==
  CASE v.t = "num" -> [ok |-> TRUE, h |-> v.n, err |-> "none"]
    [] v.t = "str" -> ParseFloat(v.s)
    [] OTHER -> [ok |-> FALSE, h |-> 0, err |-> "TypeError"]

\* int(x): a string must be an integer literal
PyInt(v) ==
  CASE v.t = "num" -> [ok |-> TRUE, i |-> Trunc(v.n), err |-> "none"]
    [] v.t = "str" ->
         LET neg == v.s # <<>> /\ v.s[1] = "-"
             body == IF neg THEN Tail(v.s) ELSE v.s
         IN IF body # <<>> /\ AllDigits(body)
            THEN [ok |-> TRUE,
                  i |-> IF neg THEN -DigitsValue(body) ELSE DigitsValue(body),
                  err |-> "none"]
            ELSE [ok |-> FALSE, i |-> 0, err |-> "ValueError"]
    [] OTHER -> [ok |-> FALSE, i |-> 0, err |-> "TypeError"]

\* str(x) of a number held in halves
NumText(h) ==
  LET m == IF h >= 0 THEN h ELSE -h
      sign == IF h < 0 THEN <<"-">> ELSE <<>>
  IN sign \o Digits(m \div 2) \o (IF m % 2 = 1 THEN <<".", "5">> ELSE <<>>)

\* str(x), as an f-string or a table cell shows a value
PyStr(v) ==
  CASE v.t = "str" -> v.s
    [] v.t = "num" -> NumText(v.n)
    [] v.t = "null" -> <<"None">>
    [] OTHER -> <<"[...]">>

----------------------------------------------------------------------------
(* Text.  Characters outside ASCII are written as their code points. *)

CheckMark == "U+2705"
OrangeDiamond == "U+1F536"
RedCircle == "U+1F534"
S_Ready == <<"R", "e", "a", "d", "y">>
S_Almost == <<"A", "l", "m", "o", "s", "t">>
S_NA == <<"N", "/", "A">>

Block(label, text, style) == [label |-> label, text |-> text, style |-> style]
NoErr == [kind |-> "none", line |-> 0]
Raise(kind, line) == [kind |-> kind, line |-> line]
Done(blocks) == [ok |-> TRUE, blocks |-> blocks, err |-> NoErr]
Fail(kind, line) == [ok |-> FALSE, blocks |-> <<>>, err |-> Raise(kind, line)]

\* datetime.now().strftime(...): the wall clock read to the minute
ClockText(now) == <<"clock ">> \o Digits(now)

\* the subtitle line if the clock were always used
GeneratedOn_clock(d, now) == <<"Generated on ">> \o ClockText(now)

\* the subtitle line: data.get('generatedAt', <now>)
GeneratedOn(d, now) ==
  <<"Generated on ">> \o PyStr(Get(d.generatedAt, Str(ClockText(now))))

HeaderStage(d, now) ==
  Done(<<Block("title", <<"Home Buying Readiness Report">>, "title"),
         Block("subtitle", GeneratedOn(d, now), "subtitle"),
         Block("hr", <<>>, "primary")>>)

\* the if / elif / else on the text of the verdict
VerdictClass(s) ==
  IF Contains(s, <<CheckMark>>) \/ Contains(s, S_Ready) THEN "ready"
  ELSE IF Contains(s, <<OrangeDiamond>>) \/ Contains(s, S_Almost) THEN "almost"
  ELSE "notready"

\* verdict_color / verdict_bg of a class
VerdictTheme(class) ==
  CASE class = "ready" -> "success/#d1fae5"
    [] class = "almost" -> "warning/#fef3c7"
    [] OTHER -> "danger/#fee2e2"

\* target_price_formatted
TargetPriceFormatted(tp) ==
  IF Truthy(tp) /\ tp # Str(<<"0">>)
  THEN LET f == Float(tp)
       IN IF f.ok
          THEN [ok |-> TRUE, text |-> <<"$">> \o FormatInt(Trunc(f.h)), err |-> "none"]
          ELSE [ok |-> FALSE, text |-> <<>>, err |-> f.err]
  ELSE [ok |-> TRUE, text |-> S_NA, err |-> "none"]

\* verdict.replace(...).replace(...).replace(...)
VerdictText(s) ==
  ReplaceChar(ReplaceChar(ReplaceChar(s, CheckMark, "U+2713"),
                          OrangeDiamond, "U+26A0"), RedCircle, "U+2717")

VerdictStage(d) ==
  LET verdict == Get(d.readinessStatus, Str(<<>>))
      \* a list supports "in" and takes the else branch
      class == IF verdict.t = "str" THEN VerdictClass(verdict.s) ELSE "notready"
      price == TargetPriceFormatted(Get(d.targetHomePrice, Str(<<"0">>)))
  IN IF verdict.t \in {"null", "num"} THEN Fail("TypeError", 108)
     ELSE IF ~price.ok THEN Fail(price.err, 129)
     ELSE IF verdict.t # "str" THEN Fail("AttributeError", 135)
     ELSE Done(<<Block("Target Home Price: ", price.text, VerdictTheme(class)),
                 Block("verdict", VerdictText(verdict.s), VerdictTheme(class))>>)

ResultsStage(d) ==
  Done(<<Block("Monthly Payment", PyStr(Get(d.monthlyPayment, Str(S_NA))), ""),
         Block("Down Payment Needed", PyStr(Get(d.downPaymentNeeded, Str(S_NA))), ""),
         Block("Closing Costs (Est.)", PyStr(Get(d.closingCosts, Str(S_NA))), ""),
         Block("Total Cash Needed", PyStr(Get(d.totalCashNeeded, Str(S_NA))), "")>>)

\* get_dti_color with the boundaries excluded
get_dti_color_strict(dti_str, threshold) ==
  IF dti_str.t # "str" THEN "gray"
  ELSE LET p == ParseFloat(Remove(dti_str.s, "%"))
       IN IF ~p.ok THEN "gray"
          ELSE IF p.h < 2 * threshold THEN "success"
          ELSE IF p.h < 2 * (threshold + DtiBand) THEN "warning"
          ELSE "danger"

\* get_dti_color: the colour stands for the class
\* (success = good, warning = high, danger = too-high, gray = unknown)
get_dti_color(dti_str, threshold) ==
  IF dti_str.t # "str" THEN "gray"
  ELSE LET p == ParseFloat(Remove(dti_str.s, "%"))
       IN IF ~p.ok THEN "gray"
          ELSE IF p.h <= 2 * threshold THEN "success"
          ELSE IF p.h <= 2 * (threshold + DtiBand) THEN "warning"
          ELSE "danger"

\* the Status cell of a row of dti_data
DtiStatus(color) ==
  IF color = "success" THEN <<"U+2713 Good">>
  ELSE IF color = "warning" THEN <<"U+26A0 High">>
  ELSE <<"U+2717 Too High">>

DtiStage(d) ==
  LET dti == d.dti
      housing_dti == Get(dti.f.housingDTI, Str(S_NA))
      total_dti == Get(dti.f.totalDTI, Str(S_NA))
      housing_color == get_dti_color(housing_dti, HousingMax)
      total_color == get_dti_color(total_dti, TotalMax)
  IN IF dti.t \notin {"dict", "missing"} THEN Fail("AttributeError", 182)
     ELSE Done(<<Block("Housing DTI", PyStr(housing_dti), housing_color),
                 Block("Housing DTI Status", DtiStatus(housing_color), housing_color),
                 Block("Total DTI", PyStr(total_dti), total_color),
                 Block("Total DTI Status", DtiStatus(total_color), total_color)>>)

\* f"${int(float(x.get(key, 0) or 0)):,}"
Currency(v) ==
  LET f == Float(Or0(Get(v, Whole(0))))
  IN IF f.ok
     THEN [ok |-> TRUE, text |-> <<"$">> \o FormatInt(Trunc(f.h)), err |-> "none"]
     ELSE [ok |-> FALSE, text |-> <<>>, err |-> f.err]

\* a table of currency rows, built top to bottom: the first cell that
\* raises ends the stage
CurrencyRows(rows) ==
  LET bad == {i \in 1..Len(rows) : ~Currency(rows[i].v).ok}
      first == CHOOSE i \in bad : \A j \in bad : i <= j
  IN IF bad = {}
     THEN Done([i \in 1..Len(rows) |->
                  Block(rows[i].label, Currency(rows[i].v).text, "")])
     ELSE Fail(Currency(rows[first].v).err, rows[first].line)

IncomeStage(d) ==
  LET inputs == d.inputs.f
      money == CurrencyRows(<<
        [label |-> "Annual Gross Income", v |-> inputs.annualIncome, line |-> 237],
        [label |-> "Additional Income", v |-> inputs.additionalIncome, line |-> 238],
        [label |-> "Total Savings", v |-> inputs.totalSavings, line |-> 240],
        [label |-> "Monthly Savings Rate", v |-> inputs.monthlySavings, line |-> 241]>>)
  IN IF d.inputs.t \notin {"dict", "missing"} THEN Fail("AttributeError", 237)
     ELSE IF ~money.ok THEN money
     ELSE Done(SubSeq(money.blocks, 1, 2)
               \o <<Block("Credit Score", PyStr(Get(inputs.creditScore, Str(S_NA))), "")>>
               \o SubSeq(money.blocks, 3, 4))

\* total_debt: the sum of the four floats, in halves
TotalDebt(debts) ==
  Float(Or0(Get(debts.carPayment, Whole(0)))).h
  + Float(Or0(Get(debts.studentLoans, Whole(0)))).h
  + Float(Or0(Get(debts.creditCards, Whole(0)))).h
  + Float(Or0(Get(debts.otherDebt, Whole(0)))).h

DebtsStage(d) ==
  LET debts == d.monthlyDebts.f
      money == CurrencyRows(<<
        [label |-> "Car Payment(s)", v |-> debts.carPayment, line |-> 269],
        [label |-> "Student Loans", v |-> debts.studentLoans, line |-> 270],
        [label |-> "Credit Card Minimums", v |-> debts.creditCards, line |-> 271],
        [label |-> "Other Debts", v |-> debts.otherDebt, line |-> 272]>>)
  IN IF d.monthlyDebts.t \notin {"dict", "missing"} THEN Fail("AttributeError", 269)
     ELSE IF ~money.ok THEN money
     ELSE Done(money.blocks
               \o <<Block("Total Monthly Debt",
                          <<"$">> \o FormatInt(Trunc(TotalDebt(debts))), "")>>)

LowerChars == <<"a", "c", "f", "h", "n", "o", "v">>
UpperChars == <<"A", "C", "F", "H", "N", "O", "V">>
Upper(c) == IF \E i \in 1..7 : LowerChars[i] = c
            THEN UpperChars[CHOOSE i \in 1..7 : LowerChars[i] = c] ELSE c
Lower(c) == IF \E i \in 1..7 : UpperChars[i] = c
            THEN LowerChars[CHOOSE i \in 1..7 : UpperChars[i] = c] ELSE c
IsLetter(c) == \E i \in 1..7 : LowerChars[i] = c \/ UpperChars[i] = c

\* str.title(): a letter that follows a non-letter is upper case, the
\* other letters are lower case
Title(cs) ==
  [i \in 1..Len(cs) |->
     IF i = 1 \/ ~IsLetter(cs[i - 1]) THEN Upper(cs[i]) ELSE Lower(cs[i])]

LoanStage(d) ==
  LET inputs == d.inputs.f
      loanType == Get(inputs.loanType, Str(S_NA))
  IN IF loanType.t # "str" THEN Fail("AttributeError", 311)
     ELSE Done(<<Block("Down Payment", PyStr(Get(inputs.downPaymentPercent, Str(S_NA))), ""),
                 Block("Loan Type", Title(loanType.s), ""),
                 Block("Loan Term", PyStr(Get(inputs.loanTerm, Str(S_NA))), ""),
                 Block("Interest Rate", PyStr(Get(inputs.interestRate, Str(S_NA))), "")>>)

----------------------------------------------------------------------------
(* Recommended next steps *)

SaveItem(gap) ==
  <<"Save $">> \o FormatInt(Trunc(gap))
    \o <<" more for down payment, closing costs, and reserves">>
ImproveCreditItem ==
  <<"Work on improving your credit score above 700 for better interest rates">>
PreApprovalItem ==
  <<"Your credit score is good - consider getting pre-approved for a mortgage">>
ReadyItems ==
  <<(<<"You're ready! Start interviewing real estate agents in your target area">>),
    (<<"Get pre-approved with 2-3 lenders to compare rates">>)>>
AlmostItems ==
  <<(<<"Consider paying down existing debts to improve your DTI ratio">>),
    (<<"Continue saving while monitoring interest rates">>)>>
NotReadyItems ==
  <<(<<"Focus on increasing income or reducing monthly debts">>),
    (<<"Consider looking at homes in a lower price range">>)>>

\* first try block: any exception leaves next_steps as it is
GapSteps(d) ==
  LET savings == Float(Or0(Get(d.inputs.f.totalSavings, Whole(0))))
      tc == Get(d.totalCashNeeded, Str(<<"$", "0">>))
      total_cash == Remove(Remove(tc.s, "$"), ",")
      total_cash_float == IF total_cash # <<>> THEN ParseFloat(total_cash)
                          ELSE [ok |-> TRUE, h |-> 0, err |-> "none"]
  IN IF ~savings.ok \/ tc.t # "str" \/ ~total_cash_float.ok THEN <<>>
     ELSE IF savings.h < total_cash_float.h
          THEN <<SaveItem(total_cash_float.h - savings.h)>>
          ELSE <<>>

\* second try block with 700 itself counted as low
CreditSteps_inclusive(d) ==
  LET credit_score == PyInt(Or0(Get(d.inputs.f.creditScore, Whole(0))))
  IN IF ~credit_score.ok THEN <<>>
     ELSE IF credit_score.i <= CreditThreshold THEN <<ImproveCreditItem>>
     ELSE <<PreApprovalItem>>

\* second try block
CreditSteps(d) ==
  LET credit_score == PyInt(Or0(Get(d.inputs.f.creditScore, Whole(0))))
  IN IF ~credit_score.ok THEN <<>>
     ELSE IF credit_score.i < CreditThreshold THEN <<ImproveCreditItem>>
     ELSE IF credit_score.i >= CreditThreshold THEN <<PreApprovalItem>>
     ELSE <<>>

\* the if / elif / else on the verdict (a string once this stage is reached)
StatusSteps(d) ==
  LET class == VerdictClass(Get(d.readinessStatus, Str(<<>>)).s)
  IN CASE class = "ready" -> ReadyItems
       [] class = "almost" -> AlmostItems
       [] OTHER -> NotReadyItems

\* the list with the credit rule run before the savings rule
NextStepsList_creditFirst(d) == CreditSteps(d) \o GapSteps(d) \o StatusSteps(d)

NextStepsList(d) == GapSteps(d) \o CreditSteps(d) \o StatusSteps(d)

\* the numbered bullets
Bullets(steps) ==
  [i \in 1..Len(steps) |->
     Block("step", <<"<b>">> \o Digits(i) \o <<".</b> ">> \o steps[i], "bullet")]

FooterBlocks ==
  <<Block("hr", <<>>, "gray"),
    Block("footer", <<"This report is for informational purposes only and does not constitute financial advice.<br/>Consult with a mortgage professional for personalized guidance.">>, "footer"),
    Block("footer", <<"Generated by Home Buying Readiness Calculator">>, "footer")>>

----------------------------------------------------------------------------
(* Input records *)

EmptyDti == [housingDTI |-> Missing, totalDTI |-> Missing]
EmptyDebts == [carPayment |-> Missing, studentLoans |-> Missing,
               creditCards |-> Missing, otherDebt |-> Missing]
EmptyInputs == [annualIncome |-> Missing, additionalIncome |-> Missing,
                creditScore |-> Missing, totalSavings |-> Missing,
                monthlySavings |-> Missing, downPaymentPercent |-> Missing,
                loanType |-> Missing, loanTerm |-> Missing,
                interestRate |-> Missing]

Dict(f) == [t |-> "dict", f |-> f]
\* a value of the wrong shape where a dict is expected, or an absent key
Shape(t, empty) == [t |-> t, f |-> empty]

T_abc == <<"a", "b", "c">>
T_Ready == <<CheckMark, " ">> \o S_Ready
T_Almost == <<OrangeDiamond, " ">> \o S_Almost
T_NotReady == <<RedCircle, " ", "N", "o", "t">> \o S_Ready
T_AlmostReady == <<OrangeDiamond, " ">> \o S_Almost \o <<" ">> \o S_Ready
T_Denied == <<RedCircle, " ", "D", "e", "n", "i", "e", "d">>
T_Unknown == <<"U", "n", "k", "n", "o", "w", "n">>

\* the three statuses of the data model, marker and text
ModelStatuses == {T_Ready, T_Almost, T_NotReady}

BaseInputs ==
  [annualIncome |-> Whole(125000), additionalIncome |-> Whole(0),
   creditScore |-> Whole(720), totalSavings |-> Whole(60000),
   monthlySavings |-> Whole(1500),
   downPaymentPercent |-> Str(<<"2", "0", "%">>),
   loanType |-> Str(<<"f", "h", "a">>),
   loanTerm |-> Str(<<"30 years">>), interestRate |-> Str(<<"6", ".", "5", "%">>)]

BaseDebts ==
  [carPayment |-> Whole(300), studentLoans |-> Whole(200),
   creditCards |-> Str(<<>>), otherDebt |-> Whole(50)]

Base ==
  [generatedAt |-> Str(<<"January 05, 2026 at 10:00 AM">>),
   readinessStatus |-> Str(T_Ready),
   targetHomePrice |-> Whole(350000),
   monthlyPayment |-> Str(<<"$", "2", ",", "1", "0", "0">>),
   downPaymentNeeded |-> Str(<<"$", "7", "0", ",", "0", "0", "0">>),
   closingCosts |-> Str(<<"$", "1", "0", ",", "5", "0", "0">>),
   totalCashNeeded |-> Str(<<"$", "8", "0", ",", "5", "0", "0">>),
   dti |-> Dict([housingDTI |-> Str(<<"2", "7", "%">>),
                 totalDTI |-> Str(<<"3", "5", "%">>)]),
   inputs |-> Dict(BaseInputs),
   monthlyDebts |-> Dict(BaseDebts)]

StatusVals ==
  {Missing, Null, Whole(1), List, Str(<<>>), Str(T_Unknown), Str(T_Denied),
   Str(T_AlmostReady)} \cup {Str(s) : s \in ModelStatuses}

GeneratedAtVals == {Missing, Base.generatedAt}

PriceVals ==
  {Missing, Null, List, Whole(0), Num(0), Str(<<"0">>), Str(<<>>), Str(T_abc),
   Whole(999), Whole(350000), Num(250001),
   Str(<<"3", "5", "0", "0", "0", "0">>), Str(<<"0", ".", "0">>)}

MoneyVals == {Missing, Str(T_abc), Whole(125000), Num(2469)}

DebtVals == {Missing, Str(<<>>), Str(T_abc), Num(1)}

DtiVals(t) ==
  {Missing, Null, Whole(t), Str(<<>>), Str(T_abc), Str(S_NA),
   Str(Digits(t - 1) \o <<"%">>), Str(Digits(t) \o <<"%">>),
   Str(Digits(t) \o <<".", "5", "%">>), Str(Digits(t + 4) \o <<"%">>),
   Str(Digits(t + DtiBand) \o <<"%">>),
   Str(Digits(t + DtiBand) \o <<".", "5", "%">>),
   Str(Digits(t + DtiBand + 5) \o <<"%">>), Str(Digits(t + DtiBand + 5)),
   Str(<<"%", "9", "9", "%">>)}

CreditVals ==
  {Missing, Null, List, Str(<<>>), Str(T_abc), Whole(0), Whole(650),
   Whole(699), Num(1399), Whole(700), Num(1401), Whole(780),
   Str(<<"6", "5", "0">>), Str(<<"7", "0", "0">>),
   Str(<<"7", "0", "0", ".", "5">>)}

SavingsVals ==
  {Missing, Str(T_abc), Whole(10000), Num(30001), Whole(15000), Whole(60000)}

CashVals ==
  {Missing, Whole(15000), Str(<<>>), Str(S_NA),
   Str(<<"$", "1", "5", ",", "0", "0", "0">>),
   Str(<<"$", "1", "5", ",", "0", "0", "0", ".", "5">>), Str(<<"$", "0">>)}

LoanTypeVals ==
  {Missing, Null, Whole(30), Str(<<"f", "h", "a">>), Str(<<"F", "H", "A">>),
   Str(<<"v", "a", " ", "l", "o", "a", "n">>)}

WrongShapes == {"null", "str", "list", "num"}

\* records that vary the header and the verdict box
VerdictInputs ==
  {[Base EXCEPT !.generatedAt = g, !.readinessStatus = v, !.targetHomePrice = p] :
     g \in GeneratedAtVals, v \in StatusVals, p \in PriceVals}

\* records that vary the DTI table
DtiInputs ==
  {[Base EXCEPT !.dti = Dict([housingDTI |-> h, totalDTI |-> t])] :
     h \in DtiVals(HousingMax), t \in DtiVals(TotalMax)}
  \cup {[Base EXCEPT !.dti = Shape(t, EmptyDti)] : t \in WrongShapes \cup {"missing"}}

\* records that vary the income table
IncomeInputs ==
  {[Base EXCEPT !.inputs = Dict([BaseInputs EXCEPT !.annualIncome = a,
                                   !.additionalIncome = b,
                                   !.totalSavings = c,
                                   !.monthlySavings = e])] :
     a \in MoneyVals \cup {Null}, b \in MoneyVals \cup {Str(<<>>)},
     c \in MoneyVals \cup {Whole(0)},
     e \in MoneyVals \cup {Str(<<"1", "5", "0", "0">>)}}
  \cup {[Base EXCEPT !.inputs = Shape(t, EmptyInputs)] : t \in WrongShapes \cup {"missing"}}

\* records that vary the debt table
DebtInputs ==
  {[Base EXCEPT !.monthlyDebts = Dict([carPayment |-> a, studentLoans |-> b,
                                        creditCards |-> c, otherDebt |-> e])] :
     a \in DebtVals \cup {Whole(300)}, b \in DebtVals \cup {Whole(200)},
     c \in DebtVals \cup {Whole(1200)}, e \in DebtVals \cup {Whole(50)}}
  \cup {[Base EXCEPT !.monthlyDebts = Shape(t, EmptyDebts)] : t \in WrongShapes \cup {"missing"}}

\* records that vary what the recommendations read
StepsInputs ==
  {[Base EXCEPT !.readinessStatus = v, !.totalCashNeeded = c,
                !.inputs = Dict([BaseInputs EXCEPT !.totalSavings = s,
                                                   !.creditScore = k])] :
     v \in {Str(x) : x \in ModelStatuses \cup {T_Unknown}},
     c \in CashVals, s \in SavingsVals, k \in CreditVals}

\* records that vary the loan table
LoanInputs ==
  {[Base EXCEPT !.inputs = Dict([BaseInputs EXCEPT !.loanType = l])] :
     l \in LoanTypeVals}

Inputs == VerdictInputs \cup DtiInputs \cup IncomeInputs \cup DebtInputs
          \cup StepsInputs \cup LoanInputs

----------------------------------------------------------------------------
(* create_pdf_report as a state machine *)

Init ==
  /\ data \in Inputs
  /\ run = 1
  /\ pc = "header"
  /\ story = <<>>
  /\ next_steps = <<>>
  /\ err = NoErr
  /\ artifacts = <<>>

\* a stage appends its blocks and moves on, or raises
Step(from, to, r) ==
  /\ pc = from
  /\ IF r.ok
     THEN /\ story' = story \o r.blocks
          /\ pc' = to
          /\ err' = err
     ELSE /\ story' = story
          /\ pc' = "failed"
          /\ err' = r.err
  /\ UNCHANGED <<data, run, artifacts>>

Header ==
  \E now \in 0..MaxClock :
    /\ Step("header", "verdict", HeaderStage(data, now))
    /\ UNCHANGED next_steps

Verdict == Step("verdict", "results", VerdictStage(data)) /\ UNCHANGED next_steps

KeyResults == Step("results", "dti", ResultsStage(data)) /\ UNCHANGED next_steps

DtiAnalysis == Step("dti", "income", DtiStage(data)) /\ UNCHANGED next_steps

IncomeProfile == Step("income", "debts", IncomeStage(data)) /\ UNCHANGED next_steps

DebtProfile == Step("debts", "loan", DebtsStage(data)) /\ UNCHANGED next_steps

LoanConfig == Step("loan", "steps", LoanStage(data)) /\ UNCHANGED next_steps

NextSteps ==
  /\ Step("steps", "build", Done(Bullets(NextStepsList(data)) \o FooterBlocks))
  /\ next_steps' = NextStepsList(data)

\* doc.build(story) writes the artifact and the function returns
BuildOk ==
  /\ pc = "build"
  /\ pc' = "done"
  /\ artifacts' = Append(artifacts, story)
  /\ UNCHANGED <<data, run, story, next_steps, err>>

\* doc.build(story) cannot write to output_path
BuildFail ==
  /\ pc = "build"
  /\ pc' = "failed"
  /\ err' = Raise("OSError", 402)
  /\ UNCHANGED <<data, run, story, next_steps, artifacts>>

\* the caller composes the same record again
Recompose ==
  /\ pc = "done"
  /\ run < MaxRuns
  /\ run' = run + 1
  /\ pc' = "header"
  /\ story' = <<>>
  /\ next_steps' = <<>>
  /\ err' = NoErr
  /\ UNCHANGED <<data, artifacts>>

Next ==
  \/ Header \/ Verdict \/ KeyResults \/ DtiAnalysis \/ IncomeProfile
  \/ DebtProfile \/ LoanConfig \/ NextSteps \/ BuildOk \/ BuildFail
  \/ Recompose

Spec == Init /\ [][Next]_vars

----------------------------------------------------------------------------
(* Reading the rendered blocks and the input back *)

HasCell(label) == \E i \in 1..Len(story) : story[i].label = label
CellBlock(label) == story[CHOOSE i \in 1..Len(story) : story[i].label = label]
CellText(label) == CellBlock(label).text

\* next_steps holds the list of the current invocation
ListBuilt == pc \in {"build", "done"} \/ (pc = "failed" /\ err.line = 402)

\* the value is a number, or a string that reads as one
IsNumber(v) == v.t = "num" \/ (v.t = "str" /\ ParseFloat(v.s).ok)
NumberOf(v) == IF v.t = "num" THEN v.n ELSE ParseFloat(v.s).h

\* text is "$" and the whole number i in groups of three digits
IsDollars(text, i) ==
  /\ Len(text) >= 2
  /\ text[1] = "$"
  /\ text[2] # ","
  /\ \A k \in 2..Len(text) :
       IF (Len(text) - k + 1) % 4 = 0 THEN text[k] = "," ELSE text[k] \in DigitSet
  /\ DigitsValue(Remove(Tail(text), ",")) = i

AmountShown(text) == DigitsValue(Remove(Tail(text), ","))

SubFields ==
  {[label |-> "Annual Gross Income", line |-> 237, dict |-> data.inputs.t,
    v |-> data.inputs.f.annualIncome],
   [label |-> "Additional Income", line |-> 238, dict |-> data.inputs.t,
    v |-> data.inputs.f.additionalIncome],
   [label |-> "Total Savings", line |-> 240, dict |-> data.inputs.t,
    v |-> data.inputs.f.totalSavings],
   [label |-> "Monthly Savings Rate", line |-> 241, dict |-> data.inputs.t,
    v |-> data.inputs.f.monthlySavings],
   [label |-> "Car Payment(s)", line |-> 269, dict |-> data.monthlyDebts.t,
    v |-> data.monthlyDebts.f.carPayment],
   [label |-> "Student Loans", line |-> 270, dict |-> data.monthlyDebts.t,
    v |-> data.monthlyDebts.f.studentLoans],
   [label |-> "Credit Card Minimums", line |-> 271, dict |-> data.monthlyDebts.t,
    v |-> data.monthlyDebts.f.creditCards],
   [label |-> "Other Debts", line |-> 272, dict |-> data.monthlyDebts.t,
    v |-> data.monthlyDebts.f.otherDebt]}

PriceField ==
  [label |-> "Target Home Price: ", line |-> 129, dict |-> "dict",
   v |-> data.targetHomePrice]

DebtFields == {x \in SubFields : x.line >= 269}

----------------------------------------------------------------------------
(* Claims *)

\* C1: every numeric sub-field shown as a currency amount that is missing or
\* non-numeric is rendered as "$0", and composition does not stop at it.
C1_InvalidFieldRendersZero ==
  \A x \in SubFields :
    (x.dict = "dict" /\ ~IsNumber(x.v)) =>
      /\ ~(pc = "failed" /\ err.line = x.line)
      /\ (HasCell(x.label) => CellText(x.label) = <<"$", "0">>)

\* C2: whatever is missing or malformed in the record, the only error the
\* composition can end in is the failure to write the artifact.
C2_OnlyWriteFailureIsFatal ==
  pc = "failed" => (err.kind = "OSError" /\ err.line = 402)

ClassOfStatus(s) ==
  CASE s = T_Ready -> "ready"
    [] s = T_Almost -> "almost"
    [] s = T_NotReady -> "notready"

ItemsOfClass(class) ==
  CASE class = "ready" -> ReadyItems
    [] class = "almost" -> AlmostItems
    [] class = "notready" -> NotReadyItems

\* C3: a readinessStatus that is one of the three statuses of the data model
\* gets the theme of its own class on the verdict banner and the two
\* recommendations of its own class at the end of the list.
C3_StatusClassifiedAsItself ==
  (data.readinessStatus.t = "str" /\ data.readinessStatus.s \in ModelStatuses) =>
    LET class == ClassOfStatus(data.readinessStatus.s)
    IN /\ HasCell("verdict") => CellBlock("verdict").style = VerdictTheme(class)
       /\ ListBuilt =>
            /\ Len(next_steps) >= 2
            /\ SubSeq(next_steps, Len(next_steps) - 1, Len(next_steps))
                 = ItemsOfClass(class)

ItemKind(item) ==
  IF item[1] = "Save $" THEN "gap"
  ELSE IF item \in {ImproveCreditItem, PreApprovalItem} THEN "credit"
  ELSE IF \E pair \in {ReadyItems, AlmostItems, NotReadyItems} :
            item \in {pair[1], pair[2]} THEN "status"
  ELSE "other"

Kinds(steps) == [i \in 1..Len(steps) |-> ItemKind(steps[i])]

\* an absent or empty amount counts as 0
Absent(v) == v.t \in {"missing", "null"} \/ v = Str(<<>>)
Amount(v) == IF Absent(v) THEN 0 ELSE NumberOf(v)

\* savings and total cash needed (a currency string) both read as amounts,
\* savings the smaller
SavingsBelowCash ==
  LET sv == data.inputs.f.totalSavings
      tc == data.totalCashNeeded
      cash == Str(Remove(Remove(tc.s, "$"), ","))
  IN /\ Absent(sv) \/ IsNumber(sv)
     /\ tc.t = "str"
     /\ Absent(cash) \/ IsNumber(cash)
     /\ Amount(sv) < Amount(cash)

\* C4: the list is savings-gap (if any), credit (if any), then the two
\* status items, in that order; the savings-gap item is there only when
\* savings are below the total cash needed; with savings below the total
\* cash needed, a credit score below 700 and status Ready the list is the
\* savings-gap item, the improve-credit item and the two ready items.
C4_RecommendationOrder ==
  ListBuilt =>
    /\ Kinds(next_steps) \in {<<"status", "status">>,
                              <<"gap", "status", "status">>,
                              <<"credit", "status", "status">>,
                              <<"gap", "credit", "status", "status">>}
    /\ \E pair \in {ReadyItems, AlmostItems, NotReadyItems} :
         SubSeq(next_steps, Len(next_steps) - 1, Len(next_steps)) = pair
    /\ ("gap" \in {Kinds(next_steps)[i] : i \in 1..Len(next_steps)}
          => SavingsBelowCash)
    /\ ( /\ SavingsBelowCash
         /\ data.inputs.f.creditScore.t = "num"
         /\ data.inputs.f.creditScore.n < 2 * CreditThreshold
         /\ data.readinessStatus = Str(T_Ready)
         => /\ Len(next_steps) = 4
            /\ ItemKind(next_steps[1]) = "gap"
            /\ next_steps[2] = ImproveCreditItem
            /\ SubSeq(next_steps, 3, 4) = ReadyItems )

C4_Witness ==
  /\ pc = "done"
  /\ SavingsBelowCash
  /\ data.inputs.f.creditScore = Whole(650)
  /\ data.readinessStatus = Str(T_Ready)
  /\ Len(next_steps) = 4

\* a debt sub-field coerced to 0 when missing, empty or invalid (in halves)
Coerced(v) == IF IsNumber(v) THEN NumberOf(v) ELSE 0

\* C5: the Total Monthly Debt amount is the sum of the four debt sub-fields,
\* each coerced to 0 when missing, empty or invalid, and is the sum of the
\* four amounts shown above it in the table.
C5_TotalDebtIsSumOfFields ==
  data.monthlyDebts.t = "dict" =>
    /\ ~(pc = "failed" /\ err.line \in 269..282)
    /\ HasCell("Total Monthly Debt") =>
         LET f == data.monthlyDebts.f
             total == Coerced(f.carPayment) + Coerced(f.studentLoans)
                      + Coerced(f.creditCards) + Coerced(f.otherDebt)
         IN /\ IsDollars(CellText("Total Monthly Debt"), total \div 2)
            /\ AmountShown(CellText("Total Monthly Debt"))
                 = AmountShown(CellText("Car Payment(s)"))
                   + AmountShown(CellText("Student Loans"))
                   + AmountShown(CellText("Credit Card Minimums"))
                   + AmountShown(CellText("Other Debts"))

DtiRows ==
  {[label |-> "Housing DTI", status |-> "Housing DTI Status",
    v |-> data.dti.f.housingDTI, t |-> HousingMax],
   [label |-> "Total DTI", status |-> "Total DTI Status",
    v |-> data.dti.f.totalDTI, t |-> TotalMax]}

\* the value reads as a percentage: a string that is a number once its
\* percent signs are dropped
IsPercent(v) == v.t = "str" /\ ParseFloat(Remove(v.s, "%")).ok
PercentOf(v) == ParseFloat(Remove(v.s, "%")).h

\* C6: a DTI value v is good when v <= t, high when t < v <= t + 7, too-high
\* when v > t + 7 and unknown when it does not read as a percentage, and
\* the classification never raises.
C6_DtiBuckets ==
  /\ ~(pc = "failed" /\ err.line \in 186..199)
  /\ \A r \in DtiRows :
       HasCell(r.label) =>
         LET color == CellBlock(r.label).style
         IN IF ~IsPercent(r.v) THEN color = "gray"
            ELSE /\ PercentOf(r.v) <= 2 * r.t => color = "success"
                 /\ ( /\ PercentOf(r.v) > 2 * r.t
                      /\ PercentOf(r.v) <= 2 * (r.t + 7) ) => color = "warning"
                 /\ PercentOf(r.v) > 2 * (r.t + 7) => color = "danger"
  /\ get_dti_color(Str(<<"2", "7", "%">>), 28) = "success"
  /\ get_dti_color(Str(<<"3", "2", "%">>), 28) = "warning"
  /\ get_dti_color(Str(<<"4", "0", "%">>), 28) = "danger"
  /\ get_dti_color(Str(T_abc), 28) = "gray"

C6_Witness ==
  /\ HasCell("Total DTI")
  /\ data.dti.f.housingDTI = Str(<<"2", "8", "%">>)
  /\ CellBlock("Housing DTI").style = "success"
  /\ data.dti.f.totalDTI = Str(<<"4", "3", "%">>)
  /\ CellBlock("Total DTI").style = "warning"

\* C7: a DTI value that is missing or does not read as a percentage gets a
\* neutral Status cell, none of Good, High and Too High.
C7_UnknownDtiIsNeutral ==
  \A r \in DtiRows :
    (HasCell(r.label) /\ ~IsPercent(r.v)) =>
      CellText(r.status)
        \notin {<<"U+2713 Good">>, <<"U+26A0 High">>, <<"U+2717 Too High">>}

Items(steps) == {steps[i] : i \in 1..Len(steps)}

\* C8 as stated: the improve-credit item iff the score is a number below
\* 700, the pre-approval item iff it is a number of 700 or more, no credit
\* item for a score that is not a number.
C8_CreditRuleAsStated ==
  ListBuilt =>
    LET v == data.inputs.f.creditScore
    IN /\ ImproveCreditItem \in Items(next_steps)
            <=> (IsNumber(v) /\ NumberOf(v) < 2 * CreditThreshold)
       /\ PreApprovalItem \in Items(next_steps)
            <=> (IsNumber(v) /\ NumberOf(v) >= 2 * CreditThreshold)

\* what int(creditScore or 0) yields: -1 stands for a conversion that raises
\* (the scores of the model are not negative)
ScoreRead(v) ==
  CASE v.t \in {"missing", "null"} -> 0
    [] v.t = "num" -> v.n \div 2
    [] v.t = "str" /\ v.s = <<>> -> 0
    [] v.t = "str" /\ v.s # <<>> /\ AllDigits(v.s) -> DigitsValue(v.s)
    [] OTHER -> -1

\* C8 (amended): the credit rule appends at most one item, decided from
\* int(creditScore or 0): a missing, null, empty or zero score counts as 0;
\* the improve-credit item iff the conversion gives less than 700, the
\* pre-approval item iff it gives 700 or more, no item iff the conversion
\* raises (text that is not an integer literal, a value that is not a scalar).
C8_CreditRule ==
  ListBuilt =>
    LET k == ScoreRead(data.inputs.f.creditScore)
        credit == {i \in 1..Len(next_steps) : ItemKind(next_steps[i]) = "credit"}
    IN /\ Cardinality(credit) <= 1
       /\ ImproveCreditItem \in Items(next_steps) <=> (k >= 0 /\ k < 700)
       /\ PreApprovalItem \in Items(next_steps) <=> k >= 700
       /\ credit = {} <=> k = -1

C8_Witness ==
  /\ pc = "done"
  /\ data.inputs.f.creditScore = Missing
  /\ ImproveCreditItem \in Items(next_steps)
  /\ PreApprovalItem \notin Items(next_steps)

\* C9 as stated: two compositions of the same record write the same content.
C9_SameRecordSameContent ==
  \A i, j \in 1..Len(artifacts) : artifacts[i] = artifacts[j]

\* C9 (amended): two compositions of a record that carries generatedAt write
\* the same content; without generatedAt the composer takes the time from
\* its own clock, and the two contents differ at most in the subtitle line.
C9_SameContentGivenTimestamp ==
  \A i, j \in 1..Len(artifacts) :
    /\ data.generatedAt.t # "missing" => artifacts[i] = artifacts[j]
    /\ Len(artifacts[i]) = Len(artifacts[j])
    /\ \A k \in 1..Len(artifacts[i]) :
         artifacts[i][k].label # "subtitle" => artifacts[i][k] = artifacts[j][k]

C9_Witness ==
  /\ Len(artifacts) = 2
  /\ data.generatedAt.t = "str"
  /\ artifacts[1][2].text = <<"Generated on ">> \o data.generatedAt.s

ValidNonNegative(v) == IsNumber(v) /\ NumberOf(v) >= 0

\* C10 as stated: every currency field holding a valid non-negative number,
\* 0 included, is shown as "$" and the amount with thousands separators and
\* no decimals.
C10_ValidAmountShownAsDollars ==
  \A x \in SubFields \cup {PriceField} :
    (ValidNonNegative(x.v) /\ HasCell(x.label)) =>
      IsDollars(CellText(x.label), NumberOf(x.v) \div 2)

\* the target price the code takes for "no price": zero, or the string "0"
NoPrice(v) == (v.t = "num" /\ v.n = 0) \/ v = Str(<<"0">>)

\* C10 (amended): every currency field holding a valid non-negative number
\* is shown as "$" and its whole-dollar part with thousands separators,
\* except a targetHomePrice of 0 (the number, or the string "0"), which is
\* shown as "N/A".
C10_ValidAmountShownAsDollarsOrNA ==
  \A x \in SubFields \cup {PriceField} :
    (ValidNonNegative(x.v) /\ HasCell(x.label)) =>
      IF x = PriceField /\ NoPrice(x.v)
      THEN CellText(x.label) = S_NA
      ELSE IsDollars(CellText(x.label), NumberOf(x.v) \div 2)

C10_Witness ==
  /\ data.inputs.f.annualIncome = Whole(125000)
  /\ HasCell("Annual Gross Income")
  /\ CellText("Annual Gross Income") = <<"$", "1", "2", "5", ",", "0", "0", "0">>
  /\ data.targetHomePrice = Num(250001)
  /\ CellText("Target Home Price: ") = <<"$", "1", "2", "5", ",", "0", "0", "0">>

====
